---- MODULE Spec2Model ----
(***************************************************************************)
(* Model of getopt() of getopt_p.h: the POSIX option scanner that walks    *)
(* argv one option character per call, driven by the globals optarg,       *)
(* optind, opterr, optopt and the function-static character index arg_idx. *)
(*                                                                         *)
(* A C string is the sequence of its characters followed by its NUL        *)
(* terminator ("-a" is <<45, 97, 0>>); the NULL pointer is <<>>.  A        *)
(* pointer into argv is <<element index, character offset>>, a pointer     *)
(* into the option string is <<offset>>.  C indices count from 0, TLA+     *)
(* sequences from 1.                                                       *)
(***************************************************************************)
EXTENDS Integers, Sequences, FiniteSets, TLC

VARIABLES argv,      \* the caller's argument vector, argv[0] the program name
          opt_str,   \* the caller's option string
          optarg,    \* global: pointer into argv, or NULL
          optind,    \* global: index in argv of the next element
          opterr,    \* global: whether getopt prints errors
          optopt,    \* global: the last scanned option character
          arg_idx,   \* static: character index into argv[optind]
          ret,       \* the value the last call returned
          called,    \* whether getopt has been called yet
          pre,       \* the globals and the result as the last call found them
          hist,      \* the calls on this vector that scanned a character, oldest first
          stderr,    \* the diagnostic lines printed so far
          fresh,     \* a freshly initialised scanner called on the same vector
          twin,      \* the first scan as made with the other value of opterr
          scan2      \* whether a second vector is being scanned, and how far

vars == <<argv, opt_str, optarg, optind, opterr, optopt, arg_idx,
          ret, called, pre, hist, stderr, fresh, twin, scan2>>

----------------------------------------------------------------------------
(* Characters and pointers *)

NUL == 0
Dash == 45
Colon == 58
ch_a == 97
ch_f == 102
NULL == <<>>
EndOfOptions == -1
getopt_p_option_unknown == 63
getopt_p_option_missing == 58

----------------------------------------------------------------------------
(* Bounds and the inputs drawn within them *)

\* total bytes (characters and terminators) of argv[1..argc-1]
MaxBytes == 6

Bytes == {NUL, Dash, Colon, ch_a, ch_f}

SeqsUpTo(S, n) == UNION {[1..k -> S] : k \in 0..n}

\* the strings laid out one after the other, each ending at its NUL
Images == {<<>>} \cup {s \o <<NUL>> : s \in SeqsUpTo(Bytes, MaxBytes - 1)}

FirstNul(s) == CHOOSE k \in 1..Len(s) : s[k] = NUL /\ \A m \in 1..(k-1) : s[m] /= NUL

RECURSIVE Split(_)
Split(s) == IF s = <<>> THEN <<>>
            ELSE <<SubSeq(s, 1, FirstNul(s))>> \o Split(SubSeq(s, FirstNul(s) + 1, Len(s)))

ProgName == <<ch_a, NUL>>

Argvs == {<<ProgName>> \o Split(s) : s \in Images}

\* total bytes of a vector that is scanned before or after another one
SmallBytes == 4

VectorsUpTo(n) ==
    {<<ProgName>> \o Split(s) : s \in {<<>>} \cup {t \o <<NUL>> : t \in SeqsUpTo(Bytes, n - 1)}}

ArgvsSmall == VectorsUpTo(SmallBytes)

\* vectors of three elements, to have an element after an option and its argument
LongTokens == { <<Dash, ch_a, NUL>>, <<Dash, ch_f, NUL>>, <<Dash, NUL>>,
                <<Dash, Dash, NUL>>, <<ch_f, NUL>>, <<Dash, ch_a, ch_f, NUL>>,
                <<Dash, Colon, NUL>> }

LongArgvs == {<<ProgName, t1, t2, t3>> : t1 \in LongTokens, t2 \in LongTokens, t3 \in LongTokens}

\* the vectors with one element after argv[0] a null pointer
ArgvsNull == UNION {{[v EXCEPT ![k] = NULL] : k \in 2..Len(v)} : v \in Argvs}

Str(s) == s \o <<NUL>>

OptStrs == { Str(<<ch_a, ch_f>>),               \* "af"
             Str(<<ch_a, Colon, ch_f>>),        \* "a:f"
             Str(<<Colon, ch_a, Colon, ch_f>>), \* ":a:f"
             Str(<<Colon, ch_a, ch_f>>),        \* ":af"
             Str(<<ch_a, Dash>>),               \* "a-"
             Str(<<ch_f, Dash, Colon>>),        \* "f-:"
             Str(<<Colon>>) }                   \* ":"

----------------------------------------------------------------------------
(* The reads getopt makes *)

Readable(av, i, j) == /\ i \in 0..(Len(av) - 1)
                      /\ av[i + 1] /= NULL
                      /\ j \in 0..(Len(av[i + 1]) - 1)

\* argv[i][j]; a read outside a string is undefined: any byte may come back
CharAt(av, i, j) == IF Readable(av, i, j) THEN {av[i + 1][j + 1]} ELSE Bytes

\* AtEnd without the strcmp(argv[optind], "-") test
AtEnd_NoLoneDash(av, i) == \/ i >= Len(av)
                           \/ av[i + 1] = NULL
                           \/ av[i + 1][1] /= Dash

\* AtEnd without the argv[optind][0] != '-' test
AtEnd_NoFirstCharTest(av, i) == \/ i >= Len(av)
                                \/ av[i + 1] = NULL
                                \/ av[i + 1] = <<Dash, NUL>>

\* the four tests that end the scan without moving optind
AtEnd(av, i) == \/ i >= Len(av)
                \/ av[i + 1] = NULL
                \/ av[i + 1][1] /= Dash
                \/ av[i + 1] = <<Dash, NUL>>

\* strcmp(argv[optind], "--") == 0
IsEndMarker(av, i) == av[i + 1] = <<Dash, Dash, NUL>>

\* strchr: pointer to the first occurrence of c (the terminator included)
strchr(s, c) ==
    IF \E k \in 1..Len(s) : s[k] = c
    THEN <<(CHOOSE k \in 1..Len(s) : s[k] = c /\ \A m \in 1..(k-1) : s[m] /= c) - 1>>
    ELSE NULL

\* *(cp+1) == ':' ; one past the terminator it is an undefined read
TakesArg(os, cp) == IF cp[1] + 2 <= Len(os) THEN {os[cp[1] + 2] = Colon} ELSE BOOLEAN

\* getopt_p_print_err that prints whatever the option string begins with
getopt_p_print_err_NoColonTest(os, oe, msg, c) ==
    IF oe /= 0 THEN <<[msg |-> msg, ch |-> c]>> ELSE <<>>

\* the line getopt_p_print_err writes, if it writes one
getopt_p_print_err(os, oe, msg, c) ==
    IF oe /= 0 /\ os[1] /= Colon THEN <<[msg |-> msg, ch |-> c]>> ELSE <<>>

\* Advance that moves optind on at the terminator but leaves arg_idx set
Advance_NoReset(av, i, idx) ==
    {IF d = NUL THEN <<i + 1, idx + 1>> ELSE <<i, idx + 1>> : d \in CharAt(av, i, idx + 1)}

\* Advance that leaves the cursor where it is
Advance_Stuck(av, i, idx) == {<<i, idx>>}

\* arg_idx++, and on the terminator optind++ and arg_idx = 0
Advance(av, i, idx) ==
    {IF d = NUL THEN <<i + 1, 0>> ELSE <<i, idx + 1>> : d \in CharAt(av, i, idx + 1)}

\* MissingRet that ignores the leading ':' of the option string
MissingRet_AlwaysUnknown(os) == getopt_p_option_unknown

\* the value returned for a missing argument
MissingRet(os) == IF os[1] = Colon THEN getopt_p_option_missing
                  ELSE getopt_p_option_unknown

\* optarg = argv[i]
ElemPtr(av, i) == IF av[i + 1] = NULL THEN NULL ELSE <<i, 0>>

Outcome(r, oa, oi, ai, oo, out, j) ==
    [ret |-> r, optarg |-> oa, optind |-> oi, arg_idx |-> ai, optopt |-> oo,
     out |-> out, scanned |-> j]

\* Unknown that gives up the whole token instead of one character
Unknown_SkipToken(av, os, oe, i, idx, c) ==
    {Outcome(getopt_p_option_unknown, NULL, i + 1, 0, c,
             getopt_p_print_err(os, oe, "invalid option", c), idx)}

\* Unknown that gives up the whole token when nothing is to be printed
Unknown_QuietSkipsToken(av, os, oe, i, idx, c) ==
    IF oe = 0
    THEN {Outcome(getopt_p_option_unknown, NULL, i + 1, 0, c, <<>>, idx)}
    ELSE {Outcome(getopt_p_option_unknown, NULL, cur[1], cur[2], c,
                  getopt_p_print_err(os, oe, "invalid option", c), idx)
            : cur \in Advance(av, i, idx)}

\* WithArg that never looks whether the rest of the token is empty
WithArg_AlwaysGlued(av, os, oe, i, idx, c) ==
    {Outcome(c, <<i, idx + 1>>, i + 1, 0, c, <<>>, idx)}

\* c is not an option: '?'
Unknown(av, os, oe, i, idx, c) ==
    {Outcome(getopt_p_option_unknown, NULL, cur[1], cur[2], c,
             getopt_p_print_err(os, oe, "invalid option", c), idx)
       : cur \in Advance(av, i, idx)}

\* WithArg that takes the next element as the argument without stepping over it
WithArg_NoSkip(av, os, oe, i, idx, c) ==
    {IF d /= NUL
       THEN Outcome(c, <<i, idx + 1>>, i + 1, 0, c, <<>>, idx)
       ELSE IF i + 1 < Len(av)
         THEN Outcome(c, ElemPtr(av, i + 1), i + 1, 0, c, <<>>, idx)
         ELSE Outcome(MissingRet(os), NULL, i + 1, 0, c,
                      getopt_p_print_err(os, oe, "argument required for option", c), idx)
       : d \in CharAt(av, i, idx + 1)}

\* WithArg that hands out a glued argument and goes on scanning the token
WithArg_ScanOn(av, os, oe, i, idx, c) ==
    {IF d /= NUL
       THEN Outcome(c, <<i, idx + 1>>, i, idx + 1, c, <<>>, idx)
       ELSE IF i + 1 < Len(av)
         THEN Outcome(c, ElemPtr(av, i + 1), i + 2, 0, c, <<>>, idx)
         ELSE Outcome(MissingRet(os), NULL, i + 1, 0, c,
                      getopt_p_print_err(os, oe, "argument required for option", c), idx)
       : d \in CharAt(av, i, idx + 1)}

\* c requires an argument
WithArg(av, os, oe, i, idx, c) ==
    {IF d /= NUL
       THEN Outcome(c, <<i, idx + 1>>, i + 1, 0, c, <<>>, idx)
       ELSE IF i + 1 < Len(av)
         THEN Outcome(c, ElemPtr(av, i + 1), i + 2, 0, c, <<>>, idx)
         ELSE Outcome(MissingRet(os), NULL, i + 1, 0, c,
                      getopt_p_print_err(os, oe, "argument required for option", c), idx)
       : d \in CharAt(av, i, idx + 1)}

\* c takes no argument
NoArg(av, i, idx, c) ==
    {Outcome(c, NULL, cur[1], cur[2], c, <<>>, idx) : cur \in Advance(av, i, idx)}

\* Scan without the c == ':' test
Scan_ColonIsOption(av, os, oe, i, idx, c) ==
    LET cp == strchr(os, c)
    IN  IF cp = NULL
        THEN Unknown(av, os, oe, i, idx, c)
        ELSE UNION {IF ta THEN WithArg(av, os, oe, i, idx, c) ELSE NoArg(av, i, idx, c)
                      : ta \in TakesArg(os, cp)}

\* the option character c read at argv[i][idx] is classified
Scan(av, os, oe, i, idx, c) ==
    LET cp == strchr(os, c)
    IN  IF c = Colon \/ cp = NULL
        THEN Unknown(av, os, oe, i, idx, c)
        ELSE UNION {IF ta THEN WithArg(av, os, oe, i, idx, c) ELSE NoArg(av, i, idx, c)
                      : ta \in TakesArg(os, cp)}

\* getopt with arg_idx++ moved above the "--" test
getopt_IdxBeforeMarker(av, os, oe, oi, ai, oo) ==
    IF ai = 0 /\ AtEnd(av, oi)
    THEN {Outcome(EndOfOptions, NULL, oi, ai, oo, <<>>, 0)}
    ELSE IF ai = 0 /\ IsEndMarker(av, oi)
    THEN {Outcome(EndOfOptions, NULL, oi + 1, 1, oo, <<>>, 0)}
    ELSE LET idx == IF ai = 0 THEN 1 ELSE ai
         IN  UNION {Scan(av, os, oe, oi, idx, c) : c \in CharAt(av, oi, idx)}

\* getopt that makes the token-boundary tests whatever arg_idx is
getopt_AlwaysChecksBoundary(av, os, oe, oi, ai, oo) ==
    IF AtEnd(av, oi)
    THEN {Outcome(EndOfOptions, NULL, oi, 0, oo, <<>>, 0)}
    ELSE IF ai = 0 /\ IsEndMarker(av, oi)
    THEN {Outcome(EndOfOptions, NULL, oi + 1, ai, oo, <<>>, 0)}
    ELSE LET idx == IF ai = 0 THEN 1 ELSE ai
         IN  UNION {Scan(av, os, oe, oi, idx, c) : c \in CharAt(av, oi, idx)}

\* getopt with optopt = c written only where '?' or ':' is returned
getopt_OptoptOnlyOnError(av, os, oe, oi, ai, oo) ==
    IF ai = 0 /\ AtEnd(av, oi)
    THEN {Outcome(EndOfOptions, NULL, oi, ai, oo, <<>>, 0)}
    ELSE IF ai = 0 /\ IsEndMarker(av, oi)
    THEN {Outcome(EndOfOptions, NULL, oi + 1, ai, oo, <<>>, 0)}
    ELSE LET idx == IF ai = 0 THEN 1 ELSE ai
             outs == UNION {Scan(av, os, oe, oi, idx, c) : c \in CharAt(av, oi, idx)}
         IN  {IF o.optarg = NULL /\ o.ret \in {getopt_p_option_unknown, getopt_p_option_missing}
              THEN o ELSE [o EXCEPT !.optopt = oo] : o \in outs}

\* one call getopt(argc, argv, opt_str) with the globals oe, oi, oo and the
\* static ai: the outcomes the call can have
getopt(av, os, oe, oi, ai, oo) ==
    IF ai = 0 /\ AtEnd(av, oi)
    THEN {Outcome(EndOfOptions, NULL, oi, ai, oo, <<>>, 0)}
    ELSE IF ai = 0 /\ IsEndMarker(av, oi)
    THEN {Outcome(EndOfOptions, NULL, oi + 1, ai, oo, <<>>, 0)}
    ELSE LET idx == IF ai = 0 THEN 1 ELSE ai
         IN  UNION {Scan(av, os, oe, oi, idx, c) : c \in CharAt(av, oi, idx)}

----------------------------------------------------------------------------
(* The state machine: a caller that keeps calling getopt on one vector *)

\* the globals and arg_idx as the implementation initialises them
FreshScanner ==
    [optarg |-> NULL, optind |-> 1, optopt |-> getopt_p_option_unknown, arg_idx |-> 0,
     ret |-> 0, called |-> FALSE, scanned |-> FALSE]

\* one call of getopt by a scanner whose globals are s
Step(s, av, os, oe) ==
    {[optarg |-> o.optarg, optind |-> o.optind, optopt |-> o.optopt,
      arg_idx |-> o.arg_idx, ret |-> o.ret, called |-> TRUE,
      scanned |-> (s.scanned \/ o.scanned /= 0)]
       : o \in getopt(av, os, oe, s.optind, s.arg_idx, s.optopt)}

InitGlobals ==
    /\ optarg = NULL
    /\ optind = 1
    /\ optopt = getopt_p_option_unknown
    /\ arg_idx = 0
    /\ ret = 0
    /\ called = FALSE
    /\ pre = [optarg |-> NULL, optind |-> 1, optopt |-> getopt_p_option_unknown,
              arg_idx |-> 0, ret |-> 0, called |-> FALSE, errs |-> 0]
    /\ hist = <<>>
    /\ stderr = <<>>
    /\ fresh = FreshScanner
    /\ twin = FreshScanner
    /\ scan2 = [kind |-> "first", age |-> 0, undef |-> FALSE]

Init ==
    /\ argv \in Argvs \cup LongArgvs
    /\ opt_str \in OptStrs
    /\ opterr \in {0, 1}
    /\ InitGlobals

InitNull ==
    /\ argv \in Argvs \cup ArgvsNull
    /\ opt_str \in OptStrs
    /\ opterr \in {0, 1}
    /\ InitGlobals

\* a short first vector, opterr switched off as the example program does
InitSmall ==
    /\ argv \in ArgvsSmall
    /\ opt_str \in OptStrs
    /\ opterr = 0
    /\ InitGlobals

\* the call reads argv[optind][arg_idx] outside a string, or reads the
\* terminator there and then the byte after the option string's terminator:
\* from then on the behaviour of the program is undefined
UndefinedRead(av, oi, ai) ==
    ai > 0 /\ (~Readable(av, oi, ai) \/ av[oi + 1][ai + 1] = NUL)

Getopt ==
    \E o \in getopt(argv, opt_str, opterr, optind, arg_idx, optopt) :
        /\ ~scan2.undef
        /\ pre' = [optarg |-> optarg, optind |-> optind, optopt |-> optopt,
                   arg_idx |-> arg_idx, ret |-> ret, called |-> called,
                   errs |-> Len(stderr)]
        /\ called' = TRUE
        /\ ret' = o.ret
        /\ optarg' = o.optarg
        /\ optind' = o.optind
        /\ arg_idx' = o.arg_idx
        /\ optopt' = o.optopt
        /\ stderr' = stderr \o o.out
        /\ hist' = IF o.scanned = 0 THEN hist
                   ELSE Append(hist, [i |-> optind, j |-> o.scanned, ret |-> o.ret,
                                      optarg |-> o.optarg])
        /\ fresh' \in Step(fresh, argv, opt_str, opterr)
        /\ twin' \in IF scan2.kind = "first" THEN Step(twin, argv, opt_str, 1 - opterr)
                     ELSE {twin}
        /\ scan2' = [scan2 EXCEPT !.age = IF @ < 2 THEN @ + 1 ELSE 2,
                                  !.undef = UndefinedRead(argv, optind, arg_idx)]
        /\ UNCHANGED <<argv, opt_str, opterr>>

\* the caller turns to a second vector, setting optind back to 1 as it must
\* and nothing else: after the first scan has ended, or inside a token of it
NewScan ==
    /\ scan2.kind = "first"
    /\ called
    /\ (ret = EndOfOptions \/ arg_idx > 0)
    /\ argv' \in ArgvsSmall
    /\ optind' = 1
    /\ fresh' = FreshScanner
    /\ twin' = FreshScanner
    /\ scan2' = [kind |-> IF ret = EndOfOptions THEN "afterEnd" ELSE "midToken", age |-> 0,
                 undef |-> FALSE]
    /\ hist' = <<>>
    /\ UNCHANGED <<opt_str, optarg, opterr, optopt, arg_idx, ret, called, pre, stderr>>

Next == Getopt

NextScans == Getopt \/ NewScan

Spec == Init /\ [][Next]_vars

SpecNull == InitNull /\ [][Next]_vars

\* the caller's loop goes on calling getopt
SpecFair == Init /\ [][Next]_vars /\ WF_vars(Getopt)

SpecScans == InitSmall /\ [][NextScans]_vars

----------------------------------------------------------------------------
(* Vocabulary of the properties, read off argv and opt_str directly *)

argc == Len(argv)

\* the last call started at a token boundary
AtBoundary == called /\ pre.arg_idx = 0

\* element i is a non-option element: absent, null, not starting with '-',
\* or exactly "-"
NonOption(i) == \/ i >= argc
                \/ argv[i + 1] = NULL
                \/ Head(argv[i + 1]) /= Dash
                \/ argv[i + 1] = Str(<<Dash>>)

\* element i is exactly "--"
DoubleDash(i) == i < argc /\ argv[i + 1] = Str(<<Dash, Dash>>)

\* the last call scanned an option character ...
Scanned == called /\ ~(pre.arg_idx = 0 /\ (NonOption(pre.optind) \/ DoubleDash(pre.optind)))

\* ... at this character offset of argv[pre.optind] ...
ScanIdx == IF pre.arg_idx = 0 THEN 1 ELSE pre.arg_idx

\* ... and this is the character, and the one after it
ScanChar == argv[pre.optind + 1][ScanIdx + 1]
AfterScanChar == argv[pre.optind + 1][ScanIdx + 2]

\* the characters of the option string
OptChars == {opt_str[k] : k \in 1..(Len(opt_str) - 1)}

\* c is declared by the option string, with or without an argument
Declared(c) == c /= Colon /\ c \in OptChars
FirstAt(c) == CHOOSE k \in 1..(Len(opt_str) - 1) :
                  opt_str[k] = c /\ \A m \in 1..(k - 1) : opt_str[m] /= c
ArgTaking(c) == Declared(c) /\ opt_str[FirstAt(c) + 1] = Colon
Flag(c) == Declared(c) /\ opt_str[FirstAt(c) + 1] /= Colon

\* the records of hist about element i
Recs(i) == SelectSeq(hist, LAMBDA r : r.i = i)

\* element i was handed out whole as the argument of an option
TakenAsArg(i) == \E k \in 1..Len(hist) : hist[k].optarg = <<i, 0>>

----------------------------------------------------------------------------
\* C1: a call at a token boundary whose argv[optind] is absent, null, does
\* not begin with '-' or is exactly "-" returns -1 and leaves optind as it was.
C1_EndOfOptions ==
    (AtBoundary /\ NonOption(pre.optind))
        => (ret = EndOfOptions /\ optind = pre.optind)

\* C1 witness: after an option token was scanned, a call found a lone "-" at
\* argv[2] and ended the scan there.
C1_Witness ==
    /\ AtBoundary /\ pre.optind = 2 /\ argc > 2
    /\ argv[3] = Str(<<Dash>>)
    /\ ret = EndOfOptions /\ optind = 2

\* C1 witness of the null element: a null pointer at argv[1] ended the scan.
C1_WitnessNull ==
    /\ AtBoundary /\ pre.optind = 1 /\ argc > 1 /\ argv[2] = NULL
    /\ ret = EndOfOptions /\ optind = 1

\* C2 (as stated): a boundary call on "--" returns -1 with optind one further,
\* and the element after "--" is never scanned as an option by any call.
C2_MarkerEndsOptions ==
    /\ (AtBoundary /\ DoubleDash(pre.optind))
           => (ret = EndOfOptions /\ optind = pre.optind + 1)
    /\ \A k \in 1..Len(hist) :
           ~(hist[k].i >= 2 /\ DoubleDash(hist[k].i - 1) /\ ~TakenAsArg(hist[k].i - 1))

\* C2, the part about the call itself: -1 and optind advanced by exactly one.
C2_MarkerCall ==
    (AtBoundary /\ DoubleDash(pre.optind))
        => (ret = EndOfOptions /\ optind = pre.optind + 1 /\ arg_idx = 0)

\* C3 (as stated): once a call has returned -1, the next call returns -1 too
\* and leaves optind, the character offset and optopt unchanged.
C3_Idempotent ==
    (called /\ pre.called /\ pre.ret = EndOfOptions)
        => /\ ret = EndOfOptions
           /\ optind = pre.optind
           /\ arg_idx = pre.arg_idx
           /\ optopt = pre.optopt

----------------------------------------------------------------------------
\* the option characters of element i, without the '-' and the terminator
Packed(i) == SubSeq(argv[i + 1], 2, Len(argv[i + 1]) - 1)

\* element i is a packed token of options that take no argument
FlagToken(i) ==
    /\ i < argc /\ ~NonOption(i) /\ ~DoubleDash(i)
    /\ \A k \in 1..Len(Packed(i)) : Flag(Packed(i)[k])

\* C4: the characters c1..cn of a packed token of non-argument options are
\* returned left to right with optarg NULL, one per call; optind stays on the
\* token for the first n-1 calls and the n-th moves it on by one with the
\* character offset back at 0.
C4_PackedLeftToRight ==
    \A i \in 1..(argc - 1) :
        FlagToken(i) =>
            LET n == Len(Packed(i))
                m == Len(Recs(i))
            IN  /\ m <= n
                /\ \A k \in 1..m : /\ Recs(i)[k].j = k
                                   /\ Recs(i)[k].ret = Packed(i)[k]
                                   /\ Recs(i)[k].optarg = NULL
                /\ (m \in 1..(n - 1)) => (optind = i /\ arg_idx = m + 1)
                /\ (m = n /\ Scanned /\ pre.optind = i)
                       => (optind = i + 1 /\ arg_idx = 0 /\ ret = Packed(i)[n]
                           /\ optarg = NULL)

\* C4 witness: "-af" with both declared as flags has been returned as 'a'
\* then 'f' and the cursor is on the next element.
C4_Witness ==
    /\ argc > 1 /\ argv[2] = Str(<<Dash, ch_a, ch_f>>) /\ FlagToken(1)
    /\ Len(hist) = 2 /\ hist[1].ret = ch_a /\ hist[2].ret = ch_f
    /\ Scanned /\ pre.optind = 1 /\ optind = 2 /\ arg_idx = 0

\* C5: an argument-taking option that ends its token, with an element after
\* it, is returned with optarg the whole following element, optind two
\* further and the character offset 0.
C5_SeparateArgument ==
    (Scanned /\ ArgTaking(ScanChar) /\ AfterScanChar = NUL /\ pre.optind + 1 < argc)
        => /\ ret = ScanChar
           /\ optarg = (IF argv[pre.optind + 2] = NULL THEN NULL
                        ELSE <<pre.optind + 1, 0>>)
           /\ optind = pre.optind + 2
           /\ arg_idx = 0

\* C5 witness: "-a" followed by "f" under "a:f" gave 'a' with optarg "f".
C5_Witness ==
    /\ Scanned /\ ArgTaking(ScanChar) /\ AfterScanChar = NUL
    /\ pre.optind = 1 /\ argc = 3
    /\ argv[3] = Str(<<ch_f>>)
    /\ ret = ch_a /\ optarg = <<2, 0>> /\ optind = 3

\* the call recorded as r took its argument from the rest of its own token
Glued(r) == /\ ArgTaking(argv[r.i + 1][r.j + 1])
            /\ argv[r.i + 1][r.j + 2] /= NUL

\* C6: an argument-taking option with characters after it in its token is
\* returned with optarg the rest of the token, optind one further and the
\* character offset 0; no call ever scans those characters as options.
C6_GluedArgument ==
    /\ (Scanned /\ ArgTaking(ScanChar) /\ AfterScanChar /= NUL)
           => /\ ret = ScanChar
              /\ optarg = <<pre.optind, ScanIdx + 1>>
              /\ optind = pre.optind + 1
              /\ arg_idx = 0
    /\ \A k \in 1..Len(hist) :
           Glued(hist[k]) =>
               \A q \in 1..Len(hist) : ~(hist[q].i = hist[k].i /\ hist[q].j > hist[k].j)

\* C6 witness: "-af" under "a:f": 'a' with optarg "f", although 'f' is itself
\* a declared option, and a later call has been made.
C6_Witness ==
    /\ argc > 1 /\ argv[2] = Str(<<Dash, ch_a, ch_f>>)
    /\ ArgTaking(ch_a) /\ Flag(ch_f)
    /\ Len(hist) >= 1 /\ hist[1].ret = ch_a /\ hist[1].optarg = <<1, 2>>
    /\ called /\ pre.called /\ pre.optind = 2

\* C7: an argument-taking option that ends the last element returns ':' when
\* the option string begins with ':' and '?' otherwise; optopt is the option,
\* optarg NULL, optind one further, the character offset 0.
C7_MissingArgument ==
    (Scanned /\ ArgTaking(ScanChar) /\ AfterScanChar = NUL /\ pre.optind + 1 >= argc)
        => /\ ret = (IF Head(opt_str) = Colon THEN 58 ELSE 63)
           /\ optopt = ScanChar
           /\ optarg = NULL
           /\ optind = pre.optind + 1
           /\ arg_idx = 0

\* C7 witness: the last element ends in the argument-taking 'a' under ":a:f"
\* and the call returned ':'.
C7_Witness ==
    /\ Scanned /\ ArgTaking(ScanChar) /\ AfterScanChar = NUL
    /\ pre.optind + 1 = argc /\ Head(opt_str) = Colon
    /\ ret = 58 /\ optopt = ch_a /\ optind = argc

\* the call recorded as r scanned an undeclared character or ':'
UnknownAt(r) == ~Declared(argv[r.i + 1][r.j + 1])

\* C8: a character that is ':' or not in the option string returns '?' with
\* optopt the character and optarg NULL, whatever the first character of the
\* option string; only that character is passed: the next call scans the one
\* after it, and optind moves (offset 0) only after the last of the token.
C8_UnknownOption ==
    /\ (Scanned /\ ~Declared(ScanChar))
           => /\ ret = 63
              /\ optopt = ScanChar
              /\ optarg = NULL
              /\ IF AfterScanChar = NUL
                 THEN optind = pre.optind + 1 /\ arg_idx = 0
                 ELSE optind = pre.optind /\ arg_idx = ScanIdx + 1
    /\ \A k \in 1..(Len(hist) - 1) :
           (UnknownAt(hist[k]) /\ argv[hist[k].i + 1][hist[k].j + 2] /= NUL)
               => (hist[k + 1].i = hist[k].i /\ hist[k + 1].j = hist[k].j + 1)

\* C8 witness: in "-:a" under ":a:f" the ':' was reported as '?' and the 'a'
\* after it was scanned by the next call.
C8_Witness ==
    /\ argc > 1 /\ argv[2] = Str(<<Dash, Colon, ch_a>>)
    /\ Head(opt_str) = Colon /\ Declared(ch_a)
    /\ Len(hist) = 2
    /\ hist[1].ret = 63 /\ hist[1].j = 1
    /\ hist[2].j = 2 /\ hist[2].i = 1 /\ hist[2].ret /= 63

\* C9: every call returns -1, '?', ':' or a character of the option string
\* other than ':'; and ':' only under a leading ':' for a missing argument.
C9_ResultRange ==
    called =>
        /\ ret \in {-1, 63, 58} \cup (OptChars \ {Colon})
        /\ (ret = 58) =>
               /\ Head(opt_str) = Colon
               /\ Scanned /\ ArgTaking(ScanChar) /\ AfterScanChar = NUL
               /\ pre.optind + 1 >= argc

\* C9 witness: a call has scanned ':' itself under an option string that
\* begins with ':' and reported '?', not ':'.
C9_Witness ==
    /\ Scanned /\ ScanChar = Colon /\ Head(opt_str) = Colon /\ Len(opt_str) > 2
    /\ ret = 63

\* element i is a non-option element of the vector
Positional(i) == i < argc /\ NonOption(i)

StopsAtFirstNonOption ==
    /\ (AtBoundary /\ Positional(pre.optind))
           => (ret = EndOfOptions /\ optind = pre.optind /\ arg_idx = 0)
    /\ \A k \in 1..Len(hist) :
           \A i \in 1..(hist[k].i - 1) : Positional(i) => TakenAsArg(i)

\* C10: no call changes argv, and a call that finds a non-option element at
\* a token boundary returns -1 with optind on it; no option token after such
\* an element is ever scanned.
C10_NoPermutation == [][argv' = argv]_vars /\ []StopsAtFirstNonOption

\* C10 witness: the scan stopped at the non-option argv[1] although argv[2]
\* is an option token of a declared option, and was called again.
C10_Witness ==
    /\ argc = 3 /\ argv[2] = Str(<<ch_f>>) /\ argv[3] = Str(<<Dash, ch_a>>)
    /\ Declared(ch_a)
    /\ called /\ pre.called /\ ret = EndOfOptions /\ optind = 1 /\ hist = <<>>

----------------------------------------------------------------------------
\* the last call found the scanned character undeclared (or ':') ...
UnknownCase == Scanned /\ ~Declared(ScanChar)

\* ... or found no argument for an argument-taking option
MissingCase == /\ Scanned /\ ArgTaking(ScanChar) /\ AfterScanChar = NUL
               /\ pre.optind + 1 >= argc

\* the lines the last call wrote
Printed == SubSeq(stderr, pre.errs + 1, Len(stderr))

\* C11: a call writes a diagnostic line exactly when it ends in an unknown
\* option or a missing argument while opterr is non-zero and the option
\* string does not begin with ':'; it never writes more than one.
C11_DiagnosticGating ==
    called =>
        /\ Len(Printed) \in {0, 1}
        /\ (Len(Printed) = 1)
               <=> /\ UnknownCase \/ MissingCase
                   /\ opterr /= 0
                   /\ Head(opt_str) /= Colon
        /\ (ret = EndOfOptions \/ (Scanned /\ ret = ScanChar /\ Declared(ScanChar)
                                   /\ ~MissingCase))
               => Printed = <<>>

\* C11 witness: a missing argument was reported on stderr, opterr being 1 and
\* the option string not beginning with ':'.
C11_Witness ==
    /\ MissingCase /\ opterr = 1 /\ Head(opt_str) /= Colon
    /\ Printed = <<[msg |-> "argument required for option", ch |-> ScanChar]>>

\* C12 (as stated): no call returns '-' as a recognised option character.
C12_NeverReturnsDash == called => ret /= Dash

\* the characters in argv[1..argc-1], terminators not counted
RECURSIVE TotalChars(_)
TotalChars(i) == IF i >= argc THEN 0 ELSE (Len(argv[i + 1]) - 1) + TotalChars(i + 1)

\* the cursor <<e1, o1>> lies before <<e2, o2>>
CursorBefore(e1, o1, e2, o2) == e1 < e2 \/ (e1 = e2 /\ o1 < o2)

\* every call that does not return -1 moves the cursor (optind, offset)
\* strictly forward, the cursor never leaves the vector, and so the calls
\* that do not return -1 are at most as many as the characters of the vector.
C13_CursorAdvances ==
    /\ (called /\ ret /= EndOfOptions)
           => CursorBefore(pre.optind, pre.arg_idx, optind, arg_idx)
    /\ optind <= argc
    /\ (optind < argc) => arg_idx <= Len(argv[optind + 1]) - 1
    /\ (optind = argc) => arg_idx = 0
    /\ Len(hist) <= TotalChars(1)
    /\ (called /\ ret /= EndOfOptions) => hist /= <<>>

\* C13: a caller that keeps calling getopt receives -1 after finitely many
\* calls: each call that does not return -1 moves the cursor strictly forward
\* inside the vector, so there are at most as many as the vector has characters.
C13_Termination == []C13_CursorAdvances /\ <>(called /\ ret = EndOfOptions)

\* C13 witness: every character of a two-token vector has been used up by a
\* call that did not return -1, and the call after them returned -1.
C13_Witness ==
    /\ argc = 3 /\ Len(hist) = 2 /\ hist[1].i = 1 /\ hist[2].i = 2
    /\ called /\ ret = EndOfOptions /\ optind = argc

\* C14: after every call arg_idx is 0, or optind is inside the vector,
\* argv[optind] begins with '-' and 1 <= arg_idx < strlen(argv[optind]); it is
\* 0 after a call that returned -1; no call scans a string terminator.
C14_CursorInvariant ==
    /\ \/ arg_idx = 0
       \/ /\ optind < argc
          /\ 1 <= arg_idx /\ arg_idx < Len(argv[optind + 1]) - 1
          /\ Head(argv[optind + 1]) = Dash
    /\ (called /\ ret = EndOfOptions) => arg_idx = 0
    /\ \A k \in 1..Len(hist) :
           /\ hist[k].j < Len(argv[hist[k].i + 1]) - 1
           /\ argv[hist[k].i + 1][hist[k].j + 1] /= NUL

\* C14 witness: a call has left the cursor inside a token, on its third
\* character.
C14_Witness ==
    /\ called /\ arg_idx = 2 /\ optind = 1 /\ ret /= EndOfOptions
    /\ Len(argv[2]) = 4

----------------------------------------------------------------------------
\* the second vector is scanned after the first scan ended in -1, and has
\* been given at least one call
SecondAfterEnd == scan2.kind = "afterEnd" /\ scan2.age >= 1

\* C15 (as stated): after a scan that ran until -1, with optind set back to
\* 1, the calls on a new vector give the return values, optarg, optopt and
\* optind that a freshly initialised scanner gives.
C15_FreshAfterReset ==
    SecondAfterEnd
        => /\ ret = fresh.ret
           /\ optarg = fresh.optarg
           /\ optopt = fresh.optopt
           /\ optind = fresh.optind

\* C15 (amended): the same, and the character offset too, but optopt agrees
\* only once a call on the new vector has scanned a character: until then it
\* still holds the value the first scan left.
C15_FreshAfterResetButOptopt ==
    /\ (scan2.kind = "afterEnd") => arg_idx = fresh.arg_idx
    /\ SecondAfterEnd
           => /\ ret = fresh.ret
              /\ optarg = fresh.optarg
              /\ optind = fresh.optind
              /\ fresh.scanned => optopt = fresh.optopt
              /\ ~fresh.scanned => optopt = pre.optopt

\* C15 witness: on the second vector a call has scanned the option 'f' and a
\* later one has returned -1, as for a fresh scanner.
C15_Witness ==
    /\ SecondAfterEnd /\ scan2.age = 2 /\ fresh.scanned
    /\ ret = EndOfOptions /\ Len(hist) >= 1 /\ hist[1].ret = ch_f
    /\ optopt = ch_f /\ optind = 2

\* the last call was the first on a second vector taken up inside a token
FirstInterleaved == scan2.kind = "midToken" /\ scan2.age = 1

\* C16: a call on a second vector made while the offset of the first scan is
\* above 0 makes none of the token-boundary tests: it never returns -1 and
\* scans argv[1] of the second vector at the offset the first scan left,
\* whatever that element is.
C16_InterleavedAtStaleOffset ==
    FirstInterleaved
        => /\ pre.arg_idx > 0 /\ pre.optind = 1
           /\ ret /= EndOfOptions
           /\ hist /= <<>>
           /\ hist[Len(hist)].i = 1 /\ hist[Len(hist)].j = pre.arg_idx

\* C16 witness: the second vector's argv[1] is shorter than the stale offset,
\* the call read past its end, and its result is not the one a standalone
\* scan of that vector gives.
C16_Witness ==
    /\ FirstInterleaved
    /\ argc > 1 /\ ~Readable(argv, 1, pre.arg_idx)
    /\ ret /= fresh.ret

----------------------------------------------------------------------------
\* the scan made with the other value of opterr stands where this one stands
TwinAgrees ==
    /\ called = twin.called
    /\ called => /\ ret = twin.ret
                 /\ optind = twin.optind
                 /\ optarg = twin.optarg
                 /\ optopt = twin.optopt
                 /\ arg_idx = twin.arg_idx

\* C17: two scans that differ only in opterr give the same return values,
\* optind, optarg, optopt and character offsets call by call, and no call
\* writes opterr.
C17_DiagnosticsDoNotSteer == [][opterr' = opterr]_vars /\ []TwinAgrees

\* C17 witness: this scan has printed a diagnostic for an unknown option in
\* the middle of a token, the twin with opterr 0 has not, and both go on from
\* the same place.
C17_Witness ==
    /\ opterr = 1 /\ Len(stderr) = 1 /\ UnknownCase /\ Printed /= <<>>
    /\ arg_idx = 2 /\ twin.arg_idx = 2 /\ twin.ret = 63

\* element i has been consumed: scanned as an option token, handed out as an
\* option's argument, or passed as the "--" marker
Consumed(i) == Recs(i) /= <<>> \/ TakenAsArg(i) \/ DoubleDash(i)

\* C18: optind starts at 1, a call adds 0, 1 or 2 to it and it never exceeds
\* argc; when a call has returned -1, the elements from optind on are exactly
\* those not consumed as option tokens, option arguments or "--".
C18_OptindMonotone ==
    /\ 1 <= optind /\ optind <= argc
    /\ called => (optind - pre.optind) \in {0, 1, 2}
    /\ (called /\ ret = EndOfOptions)
           => /\ \A i \in 1..(optind - 1) : Consumed(i)
              /\ \A i \in optind..(argc - 1) : Recs(i) = <<>> /\ ~TakenAsArg(i)

\* C18 witness: the scan of a three-element vector used an option token and
\* its argument and stopped with optind on the third, a non-option.
C18_Witness ==
    /\ argc = 4 /\ called /\ ret = EndOfOptions /\ optind = 3
    /\ TakenAsArg(2) /\ Recs(1) /= <<>> /\ Positional(3)

\* the last call returned an argument-taking option together with its argument
ArgumentFound ==
    /\ Scanned /\ ArgTaking(ScanChar) /\ ret = ScanChar
    /\ AfterScanChar /= NUL \/ pre.optind + 1 < argc

TookNext(r) == r.optarg = <<r.i + 1, 0>>

\* C20: the element taken as the argument of an option that ends its token is
\* taken as it is, also when it begins with '-', is "-" or is "--": it is
\* never scanned, it does not end the options, and the next call goes on at
\* the element after it.
C20_ArgumentVerbatim ==
    /\ (Scanned /\ ArgTaking(ScanChar) /\ AfterScanChar = NUL /\ pre.optind + 1 < argc
          /\ Head(argv[pre.optind + 2]) = Dash)
           => /\ ret = ScanChar /\ ret /= EndOfOptions
              /\ optarg = <<pre.optind + 1, 0>>
              /\ optind = pre.optind + 2 /\ arg_idx = 0
    /\ \A k \in 1..Len(hist) :
           TookNext(hist[k])
               => /\ Recs(hist[k].i + 1) = <<>>
                  /\ IF k < Len(hist) THEN hist[k + 1].i >= hist[k].i + 2
                     ELSE optind >= hist[k].i + 2
                  /\ (k = Len(hist) /\ ret = EndOfOptions /\ pre.called
                        /\ pre.ret /= EndOfOptions)
                         => pre.optind = hist[k].i + 2

\* C20 witness: "-a" took "--" as its argument and the call after that
\* scanned the option token behind it.
C20_Witness ==
    /\ argc = 4 /\ argv[3] = Str(<<Dash, Dash>>)
    /\ Len(hist) = 2 /\ hist[1].i = 1 /\ TookNext(hist[1])
    /\ hist[2].i = 3 /\ hist[2].ret = ch_f

----------------------------------------------------------------------------
\* C21: after a call that does not return -1, optopt is the character that
\* call scanned, also when the call returned that character as an option;
\* a call that returns -1 has scanned nothing and leaves optopt as it was.
C21_OptoptTracksScan ==
    called =>
        /\ (ret /= EndOfOptions) => Scanned /\ optopt = ScanChar
        /\ (Scanned /\ Declared(ScanChar) /\ ~MissingCase) => ret = ScanChar /\ optopt = ret
        /\ (ret = EndOfOptions) => ~Scanned /\ optopt = pre.optopt

\* C21 witness: a call returned the option 'a' with optopt 'a' where optopt
\* was still '?' before, and the next call returned -1 and left optopt at 'a'.
C21_Witness ==
    /\ called /\ ret = EndOfOptions /\ optopt = ch_a
    /\ pre.called /\ pre.ret = ch_a /\ pre.optopt = ch_a
    /\ Len(hist) = 1 /\ hist[1].ret = ch_a

====
